---- MODULE Spec2Model ----
(***************************************************************************)
(* Model of ShaderManagementConsoleDocument: the shader variant list that  *)
(* the document holds and the operations that generate, append to and      *)
(* defragment it.                                                          *)
(***************************************************************************)
EXTENDS Integers, Sequences, FiniteSets, TLC

VARIABLES
    m_shaderVariantListSourceData,           \* the live list
    m_shaderVariantListSourceDataBeforeEdit, \* the snapshot taken by BeginEdit
    m_shaderAsset,                           \* TRUE when m_shaderAsset.IsReady()
    m_modified,
    shaderOptions,        \* option descriptors of the shader asset, in layout order
    systemOptionFile,     \* content of the .systemoptions file (empty when missing)
    shaderVariantListSourceData, \* the list a caller holds for SetShaderVariantListSourceData
    optionHeaders,        \* the table a caller holds for AppendSparseVariantSet:
    matrixOfValues,       \*   its header row and its flattened rows
    call,                 \* the last request made of the document and what it reported
    m_undoHistory,        \* the undo/redo transactions of the document, oldest first
    m_undoHistoryIndex,   \* how many of them are done and can be undone
    edit,                 \* the change a user of the object info makes to the list in place
    session,              \* where the edit session stands: "Idle" or "Editing"
    cleanSourceData,      \* the live list as the last open, save or Clear left it
    valueLoop             \* where the loop over the values of an unset option stands

vars == <<m_shaderVariantListSourceData, m_shaderVariantListSourceDataBeforeEdit,
          m_shaderAsset, m_modified, shaderOptions, systemOptionFile,
          shaderVariantListSourceData, optionHeaders, matrixOfValues, call,
          m_undoHistory, m_undoHistoryIndex, edit, session, cleanSourceData,
          valueLoop>>

env == <<shaderOptions, systemOptionFile, shaderVariantListSourceData,
         optionHeaders, matrixOfValues, edit>>

undoHistory == <<m_undoHistory, m_undoHistoryIndex>>

protocol == <<session, cleanSourceData, valueLoop>>

----------------------------------------------------------------------------
(* Bounds of the model.                                                    *)

\* stable ids of the records of a list handed in from outside are 1..MaxStableId
MaxStableId == 3
\* a list handed in from outside has at most MaxGiven records
MaxGiven == 2
\* no operation is asked to grow the list beyond MaxVariants records
MaxVariants == 3
\* a values matrix has at most MaxCells cells
MaxCells == 4
\* a shader option has at most MaxValues values
MaxValues == 3

\* AZ::u32 arithmetic wraps around; 2^32 is beyond the integers TLC computes
\* with, so the model's id word wraps at U32Range instead
U32Range == 16

\* transactions the undo history is let grow to
MaxHistory == 1

----------------------------------------------------------------------------
(* AZ::RPI::ShaderOptionValuesSourceData: option name -> value name, an    *)
(* unordered map.  A map is the sequence of its <<name, value>> pairs in   *)
(* traversal order, with no name twice.                                    *)

MapFind(m, k) == {i \in 1..Len(m) : m[i][1] = k}

MapCount(m, k) == IF MapFind(m, k) = {} THEN 0 ELSE 1

MapAt(m, k) == m[CHOOSE i \in MapFind(m, k) : TRUE][2]

\* m[k] = v : overwrites the entry in place, or inserts a new one
MapAssign(m, k, v) ==
    IF MapFind(m, k) = {}
    THEN Append(m, <<k, v>>)
    ELSE [m EXCEPT ![CHOOSE i \in MapFind(m, k) : TRUE] = <<k, v>>]

MapPairs(m) == {m[i] : i \in 1..Len(m)}

\* operator== of unordered maps: same size and same pairs, whatever the order
MapEquals(m1, m2) == Len(m1) = Len(m2) /\ MapPairs(m1) = MapPairs(m2)

EmptyMap == <<>>

----------------------------------------------------------------------------
(* AZ::RPI::ShaderVariantListSourceData and its VariantInfo.               *)

VariantInfo(stableId, options) == [m_stableId |-> stableId, m_options |-> options]

EmptySourceData ==
    [m_shaderFilePath |-> "", m_materialOptionsHint |-> "", m_shaderVariants |-> <<>>]

\* the next id taken from the number of records
NextStableIdByCount(variants) == (Len(variants) + 1) % U32Range

\* the next id taken from the first record
NextStableIdOfFirst(variants) ==
    IF Len(variants) = 0
    THEN 1
    ELSE (variants[1].m_stableId + 1) % U32Range

\* the id the next appended record gets
NextStableId(variants) ==
    IF Len(variants) = 0
    THEN 1
    ELSE (variants[Len(variants)].m_stableId + 1) % U32Range

----------------------------------------------------------------------------
(* AZ::RPI::ShaderOptionDescriptor.                                        *)

ShaderOptionDescriptor(name, defaultValue, minValue, values) ==
    [name |-> name, defaultValue |-> defaultValue,
     minValue |-> minValue, maxValue |-> minValue + Len(values) - 1,
     values |-> values]

GetValueName(descriptor, index) == descriptor.values[index - descriptor.minValue + 1]

----------------------------------------------------------------------------
(* The environment the document reads: the shader asset's option layout    *)
(* and the system option file next to the shader.                          *)

\* LoadAsset<ShaderAsset>(m_absolutePath, shaderPath): whether the asset can
\* be loaded is decided by the asset system at the time of the call; the
\* path of a default-constructed list names no asset
LoadablePaths == {"ok.shader"}

LoadAsset(shaderPath) == IF shaderPath \in LoadablePaths THEN BOOLEAN ELSE {FALSE}

GetShaderOptionDescriptorCount == IF m_shaderAsset THEN Len(shaderOptions) ELSE 0

\* index is 0-based, as in the code; without a ready asset the answer is
\* m_invalidDescriptor, a default-constructed descriptor
GetShaderOptionDescriptor(index) ==
    IF m_shaderAsset
    THEN shaderOptions[index + 1]
    ELSE ShaderOptionDescriptor("", "", 0, <<>>)

----------------------------------------------------------------------------
(* HashedVariantInfoSourceData::HashCombineShaderOptionValues: the names   *)
(* and values are combined into the hash in the map's traversal order.     *)

NameHash(name) ==
    CASE name = ""   -> 1
      [] name = "a"  -> 2
      [] name = "b"  -> 3
      [] name = "z"  -> 4
      [] name = "v0" -> 5
      [] name = "v1" -> 6
      [] name = "v2" -> 7
      [] OTHER       -> 8

HashCombine(seed, h) == (seed * 11 + h) % 1000003

RECURSIVE HashCombineFrom(_, _, _)
HashCombineFrom(hash, optionValues, i) ==
    IF i > Len(optionValues)
    THEN hash
    ELSE HashCombineFrom(
            HashCombine(HashCombine(hash, NameHash(optionValues[i][1])),
                        NameHash(optionValues[i][2])),
            optionValues, i + 1)

HashCombineShaderOptionValues(startingHash, optionValues) ==
    HashCombineFrom(startingHash, optionValues, 1)

----------------------------------------------------------------------------
(* Default-configuration expansion, part of SetShaderVariantListSourceData *)

\* UpdateOptionValue with the test of the option's presence inverted
UpdateOptionValueAbsent(shaderVariantIN, targetOption, targetValue, stableId) ==
    [shaderVariantOUT |->
        [i \in 1..Len(shaderVariantIN) |->
            VariantInfo((stableId + (i - 1)) % U32Range,
                        IF MapCount(shaderVariantIN[i].m_options, targetOption) = 0
                        THEN MapAssign(shaderVariantIN[i].m_options, targetOption, targetValue)
                        ELSE shaderVariantIN[i].m_options)],
     stableId |-> (stableId + Len(shaderVariantIN)) % U32Range]

\* UpdateOptionValue that hands back the id it was given
UpdateOptionValueKeepingId(shaderVariantIN, targetOption, targetValue, stableId) ==
    [shaderVariantOUT |->
        [i \in 1..Len(shaderVariantIN) |->
            VariantInfo((stableId + (i - 1)) % U32Range,
                        IF MapCount(shaderVariantIN[i].m_options, targetOption) > 0
                        THEN MapAssign(shaderVariantIN[i].m_options, targetOption, targetValue)
                        ELSE shaderVariantIN[i].m_options)],
     stableId |-> stableId]

\* UpdateOptionValue: a copy of every record of shaderVariantIN, with
\* targetOption set to targetValue where the record has that option, and
\* ids stableId, stableId + 1, ...; returns the copies and the next id
UpdateOptionValue(shaderVariantIN, targetOption, targetValue, stableId) ==
    [shaderVariantOUT |->
        [i \in 1..Len(shaderVariantIN) |->
            VariantInfo((stableId + (i - 1)) % U32Range,
                        IF MapCount(shaderVariantIN[i].m_options, targetOption) > 0
                        THEN MapAssign(shaderVariantIN[i].m_options, targetOption, targetValue)
                        ELSE shaderVariantIN[i].m_options)],
     stableId |-> (stableId + Len(shaderVariantIN)) % U32Range]

\* the descriptors whose option the system option file leaves unset (""),
\* in layout order, and the file's mapping with each of them at its default
RECURSIVE CheckUserInput(_, _, _, _)
CheckUserInput(descriptors, i, unsetOption, systemOptionSetting) ==
    IF i > Len(descriptors)
    THEN [unsetOption |-> unsetOption, systemOptionSetting |-> systemOptionSetting]
    ELSE LET d == descriptors[i]
         IN  IF MapCount(systemOptionSetting, d.name) > 0
                /\ MapAt(systemOptionSetting, d.name) = ""
             THEN CheckUserInput(descriptors, i + 1, Append(unsetOption, d),
                                 MapAssign(systemOptionSetting, d.name, d.defaultValue))
             ELSE CheckUserInput(descriptors, i + 1, unsetOption, systemOptionSetting)

\* the loop over the value indices with every value cloning the list and
\* the records staged for the values before it
RECURSIVE ExpandValuesOfStaged(_, _, _, _, _)
ExpandValuesOfStaged(shaderVariants, descriptor, index, stableId, expandShaderVariants) ==
    IF index > descriptor.maxValue
    THEN [expandShaderVariants |-> expandShaderVariants, stableId |-> stableId]
    ELSE LET optionValue == GetValueName(descriptor, index)
         IN  IF optionValue # descriptor.defaultValue
             THEN LET r == UpdateOptionValue(shaderVariants \o expandShaderVariants,
                                             descriptor.name, optionValue, stableId)
                  IN  ExpandValuesOfStaged(shaderVariants, descriptor, index + 1,
                                           r.stableId,
                                           expandShaderVariants \o r.shaderVariantOUT)
             ELSE ExpandValuesOfStaged(shaderVariants, descriptor, index + 1, stableId,
                                       expandShaderVariants)

\* the loop over the value indices of one unset option: the records staged
\* for every value but the default, copied from the list as it stood before
\* the option was processed
RECURSIVE ExpandValues(_, _, _, _, _)
ExpandValues(shaderVariants, descriptor, index, stableId, expandShaderVariants) ==
    IF index > descriptor.maxValue
    THEN [expandShaderVariants |-> expandShaderVariants, stableId |-> stableId]
    ELSE LET optionValue == GetValueName(descriptor, index)
         IN  IF optionValue # descriptor.defaultValue
             THEN LET r == UpdateOptionValue(shaderVariants, descriptor.name,
                                             optionValue, stableId)
                  IN  ExpandValues(shaderVariants, descriptor, index + 1, r.stableId,
                                   expandShaderVariants \o r.shaderVariantOUT)
             ELSE ExpandValues(shaderVariants, descriptor, index + 1, stableId,
                               expandShaderVariants)

\* the loop over the unset options
RECURSIVE ExpandUnsetOption(_, _, _, _)
ExpandUnsetOption(shaderVariants, unsetOption, i, stableId) ==
    IF i > Len(unsetOption)
    THEN shaderVariants
    ELSE LET r == ExpandValues(shaderVariants, unsetOption[i],
                               unsetOption[i].minValue, stableId, <<>>)
         IN  ExpandUnsetOption(shaderVariants \o r.expandShaderVariants,
                               unsetOption, i + 1, r.stableId)

\* the variants of an empty list after initialization from the system options
ExpandSystemOptions(descriptors, systemOptionSetting) ==
    IF Len(systemOptionSetting) > 0
    THEN LET checked == CheckUserInput(descriptors, 1, <<>>, systemOptionSetting)
         IN  ExpandUnsetOption(<<VariantInfo(1, checked.systemOptionSetting)>>,
                               checked.unsetOption, 1, 2)
    ELSE <<>>

----------------------------------------------------------------------------
(* The loop over the value indices of one unset option, step by step:      *)
(* for (uint32_t index = minValue; index <= maxValue; ++index).            *)

NoValueLoop == [pc |-> "idle", index |-> 0, minValue |-> 0, maxValue |-> 0]

\* ++index of a uint32_t
IndexIncremented(index) == (index + 1) % U32Range

\* the expansion reaches the loop for the first option of the layout: the
\* index starts at the option's minimum
BeginValueLoop ==
    /\ valueLoop.pc = "idle"
    /\ Len(shaderOptions) > 0
    /\ valueLoop' = [pc |-> "test", index |-> shaderOptions[1].minValue,
                     minValue |-> shaderOptions[1].minValue,
                     maxValue |-> shaderOptions[1].maxValue]
    /\ UNCHANGED <<m_shaderVariantListSourceData, m_shaderVariantListSourceDataBeforeEdit,
                   m_shaderAsset, m_modified, env, call, undoHistory, session,
                   cleanSourceData>>

\* one test of index <= maxValue: the body and the increment when it
\* holds, the end of the loop when it does not
ValueLoopStep ==
    /\ valueLoop.pc = "test"
    /\ valueLoop' = IF valueLoop.index <= valueLoop.maxValue
                    THEN [valueLoop EXCEPT !.index = IndexIncremented(@)]
                    ELSE [valueLoop EXCEPT !.pc = "done"]
    /\ UNCHANGED <<m_shaderVariantListSourceData, m_shaderVariantListSourceDataBeforeEdit,
                   m_shaderAsset, m_modified, env, call, undoHistory, session,
                   cleanSourceData>>

----------------------------------------------------------------------------
(* What a request leaves behind for the caller: whether the asset loaded,  *)
(* the value returned, the errors reported and the notifications sent; of  *)
(* DefragmentVariantList also the records its set retained and             *)
(* newSourceData as sorted, before the ids are reassigned.                 *)

NoCall ==
    [op |-> "Construct", loaded |-> FALSE, result |-> 0, errors |-> <<>>, notifications |-> <<>>,
     compacter |-> {}, sorted |-> <<>>, index |-> 0, descriptor |-> <<>>,
     undefined |-> FALSE]

CallOf(op) == [NoCall EXCEPT !.op = op]

----------------------------------------------------------------------------
(* SetShaderVariantListSourceData                                          *)

\* the two notifications in the opposite order
DocumentNotificationsReversed ==
    <<"OnDocumentModified", "OnDocumentObjectInfoInvalidated">>

\* the two notifications sent on the document notification bus, in the
\* order in which they are sent
DocumentNotifications ==
    <<"OnDocumentObjectInfoInvalidated", "OnDocumentModified">>

\* SetShaderVariantListSourceData that initializes from the system options
\* whether the list has variants or not
SetSourceDataExpandingAnyList(data, loaded) ==
    IF loaded
    THEN [data |-> [data EXCEPT !.m_shaderVariants =
                                  ExpandSystemOptions(shaderOptions, systemOptionFile)],
          asset |-> TRUE,
          modified |-> TRUE,
          notifications |-> DocumentNotifications,
          errors |-> <<>>]
    ELSE [data |-> data,
          asset |-> m_shaderAsset,
          modified |-> m_modified,
          notifications |-> <<>>,
          errors |-> <<"Could not load shader asset">>]

\* the document after SetShaderVariantListSourceData(data) when LoadAsset
\* answers `loaded`: the list is installed first; when the asset loads, an
\* empty list is initialized from the system options, both notifications
\* are sent and the document is marked modified
SetSourceData(data, loaded) ==
    IF loaded
    THEN [data |->
            IF Len(data.m_shaderVariants) = 0
            THEN [data EXCEPT !.m_shaderVariants =
                                  ExpandSystemOptions(shaderOptions, systemOptionFile)]
            ELSE data,
          asset |-> TRUE,
          modified |-> TRUE,
          notifications |-> DocumentNotifications,
          errors |-> <<>>]
    ELSE [data |-> data,
          asset |-> m_shaderAsset,
          modified |-> m_modified,
          notifications |-> <<>>,
          errors |-> <<"Could not load shader asset">>]

\* the part of a request that goes through SetShaderVariantListSourceData
Commit(data, loaded, c) ==
    LET r == SetSourceData(data, loaded)
    IN  /\ m_shaderVariantListSourceData' = r.data
        /\ m_shaderAsset' = r.asset
        /\ m_modified' = r.modified
        /\ call' = [c EXCEPT !.loaded = loaded,
                             !.notifications = r.notifications,
                             !.errors = r.errors]
        /\ UNCHANGED <<m_shaderVariantListSourceDataBeforeEdit, env>>

SetShaderVariantListSourceData ==
    /\ \E loaded \in LoadAsset(shaderVariantListSourceData.m_shaderFilePath) :
        Commit(shaderVariantListSourceData, loaded,
               CallOf("SetShaderVariantListSourceData"))
    /\ UNCHANGED <<undoHistory, protocol>>

----------------------------------------------------------------------------
(* AddOneVariantRow                                                        *)

\* AddOneVariantRow that pushes the record before it looks at the asset
AddOneVariantRowBeforeLoad ==
    /\ Len(m_shaderVariantListSourceData.m_shaderVariants) < MaxVariants
    /\ \E loaded \in LoadAsset(m_shaderVariantListSourceData.m_shaderFilePath) :
        LET variantInfo ==
                VariantInfo(NextStableId(m_shaderVariantListSourceData.m_shaderVariants),
                            EmptyMap)
        IN  /\ m_shaderVariantListSourceData' =
                   [m_shaderVariantListSourceData EXCEPT
                       !.m_shaderVariants = Append(@, variantInfo)]
            /\ call' = [CallOf("AddOneVariantRow") EXCEPT
                           !.loaded = loaded,
                           !.result = IF loaded THEN variantInfo.m_stableId ELSE 0]
    /\ UNCHANGED <<m_shaderVariantListSourceDataBeforeEdit, m_shaderAsset, m_modified, env,
                   undoHistory, protocol>>

AddOneVariantRow ==
    /\ Len(m_shaderVariantListSourceData.m_shaderVariants) < MaxVariants
    /\ \E loaded \in LoadAsset(m_shaderVariantListSourceData.m_shaderFilePath) :
        LET variantInfo ==
                VariantInfo(NextStableId(m_shaderVariantListSourceData.m_shaderVariants),
                            EmptyMap)
        IN  IF loaded
            THEN /\ m_shaderVariantListSourceData' =
                        [m_shaderVariantListSourceData EXCEPT
                            !.m_shaderVariants = Append(@, variantInfo)]
                 /\ call' = [CallOf("AddOneVariantRow") EXCEPT
                                !.loaded = TRUE, !.result = variantInfo.m_stableId]
            ELSE /\ UNCHANGED m_shaderVariantListSourceData
                 /\ call' = [CallOf("AddOneVariantRow") EXCEPT !.result = 0]
    /\ UNCHANGED <<m_shaderVariantListSourceDataBeforeEdit, m_shaderAsset, m_modified, env,
                   undoHistory, protocol>>

----------------------------------------------------------------------------
(* AppendSparseVariantSet                                                  *)

\* nameToHeaderIndex: the 0-based column of a header name; a name given
\* twice keeps its last column
NameToHeaderIndex(headers, name) ==
    LET columns == {i \in 1..Len(headers) : headers[i] = name}
    IN  (CHOOSE i \in columns : \A j \in columns : j <= i) - 1

\* the cell of the column-major reading of the matrix
CellIndexByColumn(headers, matrix, line, headerIndex) ==
    headerIndex * (Len(matrix) \div Len(headers)) + line

\* the 0-based place in the matrix of the cell of a line under a header
CellIndex(headers, matrix, line, headerIndex) ==
    line * Len(headers) + headerIndex

\* mapOfOptionNameToValues of one line: the loop over the descriptors of
\* the shader asset, in layout order
RECURSIVE SparseVariantOptions(_, _, _, _, _)
SparseVariantOptions(headers, matrix, line, column, mapOfOptionNameToValues) ==
    IF column >= GetShaderOptionDescriptorCount
    THEN mapOfOptionNameToValues
    ELSE LET optionName == GetShaderOptionDescriptor(column).name
         IN  IF \E i \in 1..Len(headers) : headers[i] = optionName
             THEN LET index == CellIndex(headers, matrix, line,
                                         NameToHeaderIndex(headers, optionName))
                  IN  SparseVariantOptions(headers, matrix, line, column + 1,
                          MapAssign(mapOfOptionNameToValues, optionName, matrix[index + 1]))
             ELSE SparseVariantOptions(headers, matrix, line, column + 1,
                          mapOfOptionNameToValues)

\* the records of lines 0 .. numLines - 1, with ids stableId, stableId + 1, ...
SparseVariantLines(headers, matrix, numLines, stableId) ==
    [n \in 1..numLines |->
        VariantInfo((stableId + (n - 1)) % U32Range,
                    SparseVariantOptions(headers, matrix, n - 1, 0, EmptyMap))]

\* the check of the two sizes, passing whatever the sizes are
MatrixFitsHeadersAlways(headers, matrix) == Len(matrix) % Len(headers) >= 0

\* the check made of the two sizes before anything is appended
MatrixFitsHeaders(headers, matrix) == Len(matrix) % Len(headers) = 0

\* the new records put ahead of the records of the list
LinesPrepended(sourceData, lines) ==
    [sourceData EXCEPT !.m_shaderVariants = lines \o @]

\* newSourceData with the new records placed at its end, one after another
LinesAppended(sourceData, lines) ==
    [sourceData EXCEPT !.m_shaderVariants = @ \o lines]

\* matrixOfValues.size() % optionHeaders.size() and the division that
\* follows it, with no header: an integer division by zero, which is
\* undefined; the process is stopped by the trap of the processor, or the
\* division yields 0 and the remainder is the dividend
DivisionByZero(dividend) ==
    { [trapped |-> TRUE, remainder |-> 0, quotient |-> 0],
      [trapped |-> FALSE, remainder |-> dividend, quotient |-> 0] }

\* AppendSparseVariantSet given no header: whatever the division by zero
\* leaves, it has been computed
AppendWithoutHeaders(newSourceData, c) ==
    \E division \in DivisionByZero(Len(matrixOfValues)) :
        IF division.trapped
        THEN /\ call' = [c EXCEPT !.undefined = TRUE,
                                  !.errors = <<"integer division by zero">>]
             /\ UNCHANGED <<m_shaderVariantListSourceData,
                            m_shaderVariantListSourceDataBeforeEdit,
                            m_shaderAsset, m_modified, env>>
        ELSE IF division.remainder # 0
        THEN /\ call' = [c EXCEPT !.undefined = TRUE, !.errors =
                   <<"matrixOfValues size must be multiple of header count">>]
             /\ UNCHANGED <<m_shaderVariantListSourceData,
                            m_shaderVariantListSourceDataBeforeEdit,
                            m_shaderAsset, m_modified, env>>
        ELSE \E loaded \in LoadAsset(newSourceData.m_shaderFilePath) :
                Commit(LinesAppended(newSourceData,
                           SparseVariantLines(optionHeaders, matrixOfValues,
                               division.quotient,
                               NextStableId(newSourceData.m_shaderVariants))),
                       loaded, [c EXCEPT !.undefined = TRUE])

AppendSparseVariantSet ==
    LET newSourceData == m_shaderVariantListSourceData
        stableId == NextStableId(newSourceData.m_shaderVariants)
        c == CallOf("AppendSparseVariantSet")
    IN  /\ UNCHANGED <<undoHistory, protocol>>
        /\ IF Len(optionHeaders) = 0
           THEN AppendWithoutHeaders(newSourceData, c)
           ELSE IF ~MatrixFitsHeaders(optionHeaders, matrixOfValues)
           THEN /\ call' = [c EXCEPT !.errors =
                      <<"matrixOfValues size must be multiple of header count">>]
                /\ UNCHANGED <<m_shaderVariantListSourceData,
                               m_shaderVariantListSourceDataBeforeEdit,
                               m_shaderAsset, m_modified, env>>
           ELSE LET numLines == Len(matrixOfValues) \div Len(optionHeaders)
                IN  /\ Len(newSourceData.m_shaderVariants) + numLines <= MaxVariants
                    /\ \E loaded \in LoadAsset(newSourceData.m_shaderFilePath) :
                         Commit(LinesAppended(newSourceData,
                                    SparseVariantLines(optionHeaders, matrixOfValues,
                                                       numLines, stableId)),
                                loaded, c)

----------------------------------------------------------------------------
(* DefragmentVariantList                                                   *)

\* VariantCompacterKey::Make: m_info points at the record (its position in
\* the list), m_hash is the hash of its options
VariantCompacterKey(variants, i) ==
    [m_info |-> i, m_hash |-> HashCombineShaderOptionValues(0, variants[i].m_options)]

\* VariantCompacterKey::operator==
KeyEquals(variants, lhs, rhs) ==
    /\ lhs.m_hash = rhs.m_hash
    /\ MapEquals(variants[lhs.m_info].m_options, variants[rhs.m_info].m_options)

\* an insert that lets the key that comes take the place of an equal one
CompacterInsertReplacing(variants, compacter, key) ==
    {other \in compacter : ~KeyEquals(variants, other, key)} \cup {key}

\* compacter.insert(key): a set keeps the key it has when an equal one comes
CompacterInsert(variants, compacter, key) ==
    IF \E other \in compacter : KeyEquals(variants, other, key)
    THEN compacter
    ELSE compacter \cup {key}

\* the loop that inserts the key of every record, in list order
RECURSIVE Compact(_, _, _)
Compact(variants, i, compacter) ==
    IF i > Len(variants)
    THEN compacter
    ELSE Compact(variants, i + 1,
                 CompacterInsert(variants, compacter, VariantCompacterKey(variants, i)))

\* the comparison that puts the larger id first
SortedBeforeDescending(a, b) == a.m_stableId > b.m_stableId

\* the comparison AZStd::sort is given
SortedBefore(a, b) == a.m_stableId < b.m_stableId

\* what the sort can leave of the records the set hands over in its own
\* order: every arrangement of them in which no record comes before one
\* that SortedBefore puts ahead of it
RECURSIVE SortedArrangements(_, _)
SortedArrangements(variants, infos) ==
    IF infos = {}
    THEN {<<>>}
    ELSE UNION {
            {<<variants[first]>> \o rest :
                rest \in SortedArrangements(variants, infos \ {first})}
            : first \in {i \in infos :
                            \A j \in infos : ~SortedBefore(variants[j], variants[i])}}

SortByOldStableId(variants, compacter) ==
    SortedArrangements(variants, {key.m_info : key \in compacter})

\* the loop that reassigns the ids with a counter that starts at 0
ReassignStableIdsFromZero(variants) ==
    [i \in 1..Len(variants) |-> VariantInfo((i - 1) % U32Range, variants[i].m_options)]

\* the loop that reassigns the ids: idCounter starts at 1
ReassignStableIds(variants) ==
    [i \in 1..Len(variants) |-> VariantInfo(i % U32Range, variants[i].m_options)]

\* a new source data that takes the path and leaves the hint behind
PartialCopyWithoutHint(sourceData, variants) ==
    [m_shaderFilePath |-> sourceData.m_shaderFilePath,
     m_materialOptionsHint |-> EmptySourceData.m_materialOptionsHint,
     m_shaderVariants |-> variants]

\* newSourceData: a new source data, the partial copy of hint and path into
\* it, and the variants it is given
PartialCopy(sourceData, variants) ==
    [m_shaderFilePath |-> sourceData.m_shaderFilePath,
     m_materialOptionsHint |-> sourceData.m_materialOptionsHint,
     m_shaderVariants |-> variants]

DefragmentVariantList ==
    LET variants == m_shaderVariantListSourceData.m_shaderVariants
        compacter == Compact(variants, 1, {})
    IN  /\ UNCHANGED <<undoHistory, protocol>>
        /\ \E sorted \in SortByOldStableId(variants, compacter) :
             \E loaded \in LoadAsset(m_shaderVariantListSourceData.m_shaderFilePath) :
                Commit(PartialCopy(m_shaderVariantListSourceData, ReassignStableIds(sorted)),
                       loaded,
                       [CallOf("DefragmentVariantList") EXCEPT
                           !.compacter = {key.m_info : key \in compacter},
                           !.sorted = sorted])

----------------------------------------------------------------------------
(* The lookups of the option descriptors of the shader asset.              *)

\* a descriptor lookup is asked for the indices 0..MaxIndex
MaxIndex == 2

\* m_invalidDescriptor: a default-constructed descriptor, member of the document
m_invalidDescriptor == ShaderOptionDescriptor("", "", 0, <<>>)

\* what the memory after the last descriptor of the vector can be read as
BeyondTheEnd ==
    { m_invalidDescriptor,
      ShaderOptionDescriptor("a", "v0", 0, <<"v0", "v1">>),
      ShaderOptionDescriptor("z", "v9", 7, <<"v9">>) }

\* shaderOptionDescriptors.at(index): the element at the index; for an
\* index that is not below the size the container asserts, and what follows
\* is undefined: the call does not come back (no descriptor), or it comes
\* back without a report with whatever lies beyond the end
VectorAt(vector, index) ==
    IF index < Len(vector)
    THEN {[errors |-> <<>>, descriptor |-> <<vector[index + 1]>>]}
    ELSE {[errors |-> <<"vector::at: index out of range">>, descriptor |-> <<>>]}
         \cup {[errors |-> <<>>, descriptor |-> <<d>>] : d \in BeyondTheEnd}

\* GetShaderOptionDescriptorCount as a request: it reports nothing, ready or not
GetShaderOptionDescriptorCountCall ==
    /\ call' = [CallOf("GetShaderOptionDescriptorCount") EXCEPT
                   !.result = IF m_shaderAsset THEN Len(shaderOptions) ELSE 0]
    /\ UNCHANGED <<m_shaderVariantListSourceData, m_shaderVariantListSourceDataBeforeEdit,
                   m_shaderAsset, m_modified, env, undoHistory, protocol>>

\* GetShaderOptionDescriptor(index) as a request
GetShaderOptionDescriptorCall ==
    /\ \E index \in 0..MaxIndex :
        \E outcome \in
              IF m_shaderAsset
              THEN VectorAt(shaderOptions, index)
              ELSE {[errors |-> <<"GetShaderOptionDescriptor no asset ready">>,
                     descriptor |-> <<m_invalidDescriptor>>]} :
            call' = [CallOf("GetShaderOptionDescriptor") EXCEPT
                        !.index = index,
                        !.errors = outcome.errors,
                        !.descriptor = outcome.descriptor]
    /\ UNCHANGED <<m_shaderVariantListSourceData, m_shaderVariantListSourceDataBeforeEdit,
                   m_shaderAsset, m_modified, env, undoHistory, protocol>>

----------------------------------------------------------------------------
(* What the document is given from outside.                                *)

OptionA == ShaderOptionDescriptor("a", "v0", 0, <<"v0", "v1">>)
OptionB == ShaderOptionDescriptor("b", "v1", 0, <<"v0", "v1">>)

\* option maps of the records of a given list: the last two hold the same
\* pairs and were filled in a different order
GivenOptions ==
    { EmptyMap,
      <<(<<"a", "v0">>)>>,
      <<(<<"a", "v1">>)>>,
      <<(<<"a", "v0">>), (<<"b", "v1">>)>>,
      <<(<<"b", "v1">>), (<<"a", "v0">>)>> }

\* the variants of a given list: at most MaxGiven records, with ids in
\* 1..MaxStableId that differ from each other, in any order
GivenVariants ==
    UNION {
        {v \in [1..n -> [m_stableId : 1..MaxStableId, m_options : GivenOptions]] :
            \A i, j \in 1..n : i # j => v[i].m_stableId # v[j].m_stableId}
        : n \in 0..MaxGiven}

GivenSourceData ==
    [m_shaderFilePath : {"ok.shader", "missing.shader"},
     m_materialOptionsHint : {"hint"},
     m_shaderVariants : GivenVariants]

\* a few of the given lists
SeedSourceData ==
    [m_shaderFilePath : {"ok.shader", "missing.shader"},
     m_materialOptionsHint : {"hint"},
     m_shaderVariants :
        { <<>>,
          <<VariantInfo(1, EmptyMap)>>,
          <<VariantInfo(3, <<(<<"a", "v0">>)>>)>>,
          <<VariantInfo(2, <<(<<"a", "v1">>)>>), VariantInfo(1, EmptyMap)>> }]

HeaderNames == {"a", "b", "z"}

GivenHeaders == UNION {[1..n -> HeaderNames] : n \in 1..2}

GivenMatrices == UNION {[1..n -> {"v0", "v1"}] : n \in 0..MaxCells}

GivenTables == GivenHeaders \X GivenMatrices

OneTable == {<<(<<"a">>), (<<"v1">>)>>}

\* shader asset layouts with the system option file beside each
Environments ==
    { <<(<<>>), EmptyMap>>,
      <<(<<OptionA>>), <<(<<"a", "">>)>> >>,
      <<(<<OptionA, OptionB>>), EmptyMap>>,
      <<(<<OptionB, OptionA>>), <<(<<"a", "">>), (<<"b", "">>)>> >> }

----------------------------------------------------------------------------
(* The edit session: BeginEdit, the change made in place, EndEdit, and     *)
(* the undo history the document inherits from AtomToolsDocument.          *)

\* AtomToolsDocument::AddUndoRedoHistory: the transactions that were undone
\* are dropped and the new one becomes the last one done; the closures
\* hold their own copies of the two lists
AddUndoRedoHistory(history, index, undoState, redoState) ==
    [history |-> Append(SubSeq(history, 1, index),
                        [undo |-> undoState, redo |-> redoState]),
     index |-> index + 1]

\* a comparison of the two lists that looks at paths and counts only
SourceDataDiffersInSize(undoState, redoState) ==
    \/ undoState.m_shaderFilePath # redoState.m_shaderFilePath
    \/ Len(undoState.m_shaderVariants) # Len(redoState.m_shaderVariants)

\* EndEdit: modified
SourceDataDiffers(undoState, redoState) ==
    IF \/ undoState.m_shaderFilePath # redoState.m_shaderFilePath
       \/ Len(undoState.m_shaderVariants) # Len(redoState.m_shaderVariants)
    THEN TRUE
    ELSE \E i \in 1..Len(redoState.m_shaderVariants) :
            \/ undoState.m_shaderVariants[i].m_stableId #
                   redoState.m_shaderVariants[i].m_stableId
            \/ ~MapEquals(undoState.m_shaderVariants[i].m_options,
                          redoState.m_shaderVariants[i].m_options)

\* a BeginEdit that takes no copy
SnapshotOfNothing(sourceData) == EmptySourceData

\* the momento BeginEdit saves: a copy of the list
Snapshot(sourceData) == sourceData

BeginEdit ==
    /\ m_shaderVariantListSourceDataBeforeEdit' = Snapshot(m_shaderVariantListSourceData)
    /\ call' = CallOf("BeginEdit")
    /\ session' = "Editing"
    /\ UNCHANGED <<m_shaderVariantListSourceData, m_shaderAsset, m_modified, env,
                   undoHistory, cleanSourceData, valueLoop>>

EndEdit ==
    LET undoState == m_shaderVariantListSourceDataBeforeEdit
        redoState == m_shaderVariantListSourceData
        modified == SourceDataDiffers(undoState, redoState)
    IN  /\ m_undoHistoryIndex < MaxHistory
        /\ IF modified
           THEN LET h == AddUndoRedoHistory(m_undoHistory, m_undoHistoryIndex,
                                            undoState, redoState)
                IN  /\ m_undoHistory' = h.history
                    /\ m_undoHistoryIndex' = h.index
                    /\ call' = [CallOf("EndEdit") EXCEPT !.notifications =
                                   DocumentNotifications]
           ELSE /\ UNCHANGED undoHistory
                /\ call' = CallOf("EndEdit")
        /\ m_shaderVariantListSourceDataBeforeEdit' = EmptySourceData
        /\ session' = "Idle"
        /\ UNCHANGED <<m_shaderVariantListSourceData, m_shaderAsset, m_modified, env,
                       cleanSourceData, valueLoop>>

\* AtomToolsDocument::Undo: the undo closure of the last transaction done,
\* SetShaderVariantListSourceData(undoState)
Undo ==
    /\ m_undoHistoryIndex > 0
    /\ LET undoState == m_undoHistory[m_undoHistoryIndex].undo
       IN  \E loaded \in LoadAsset(undoState.m_shaderFilePath) :
               Commit(undoState, loaded, CallOf("Undo"))
    /\ m_undoHistoryIndex' = m_undoHistoryIndex - 1
    /\ UNCHANGED <<m_undoHistory, protocol>>

\* AtomToolsDocument::Redo: the redo closure of the first transaction
\* undone, SetShaderVariantListSourceData(redoState)
Redo ==
    /\ m_undoHistoryIndex < Len(m_undoHistory)
    /\ LET redoState == m_undoHistory[m_undoHistoryIndex + 1].redo
       IN  \E loaded \in LoadAsset(redoState.m_shaderFilePath) :
               Commit(redoState, loaded, CallOf("Redo"))
    /\ m_undoHistoryIndex' = m_undoHistoryIndex + 1
    /\ UNCHANGED <<m_undoHistory, protocol>>

\* the options of a record, put into the map in the opposite order
Reinserted(options) == [i \in 1..Len(options) |-> options[Len(options) + 1 - i]]

\* the list after a change made to it in place
EditedSourceData(sourceData, e) ==
    LET variants == sourceData.m_shaderVariants
        first == variants[1]
    IN  CASE e = "RemoveAll" -> [sourceData EXCEPT !.m_shaderVariants = <<>>]
          [] e = "SetHint" ->
                [sourceData EXCEPT !.m_materialOptionsHint =
                    IF @ = "hint" THEN "edited" ELSE "hint"]
          [] e = "SetPath" ->
                [sourceData EXCEPT !.m_shaderFilePath =
                    IF @ = "ok.shader" THEN "missing.shader" ELSE "ok.shader"]
          [] variants = <<>> -> sourceData
          [] e = "SetOptions" ->
                [sourceData EXCEPT !.m_shaderVariants[1].m_options =
                    IF @ = <<(<<"a", "v1">>)>> THEN <<(<<"a", "v0">>)>>
                                              ELSE <<(<<"a", "v1">>)>>]
          [] e = "SetStableId" ->
                [sourceData EXCEPT !.m_shaderVariants[1].m_stableId =
                    (@ % MaxStableId) + 1]
          [] e = "Reinsert" ->
                [sourceData EXCEPT !.m_shaderVariants[1].m_options = Reinserted(@)]

\* a change made to the list in place by the holder of the pointer that
\* GetObjectInfo hands out
EditObject ==
    LET edited == EditedSourceData(m_shaderVariantListSourceData, edit)
    IN  /\ edited # m_shaderVariantListSourceData
        /\ m_shaderVariantListSourceData' = edited
        /\ call' = CallOf("EditObject")
        /\ UNCHANGED <<m_shaderVariantListSourceDataBeforeEdit, m_shaderAsset, m_modified,
                       env, undoHistory, protocol>>

----------------------------------------------------------------------------
(* Clear, Open and Save.  AtomToolsDocument, the base class, is called     *)
(* first by each of them: its Clear forgets the undo history, its Open     *)
(* clears the document and takes the path, and either of Open and Save     *)
(* can refuse; a refused or failed Open leaves the document cleared.       *)

\* the document as Clear leaves it
Cleared(c) ==
    /\ m_undoHistory' = <<>>
    /\ m_undoHistoryIndex' = 0
    /\ m_shaderVariantListSourceData' = EmptySourceData
    /\ m_shaderVariantListSourceDataBeforeEdit' = EmptySourceData
    /\ m_shaderAsset' = FALSE
    /\ m_modified' = FALSE
    /\ call' = c
    /\ session' = "Idle"
    /\ cleanSourceData' = EmptySourceData
    /\ UNCHANGED <<env, valueLoop>>

Clear == Cleared(CallOf("Clear"))

\* what Open hands to SetShaderVariantListSourceData: for a shader, a list
\* without variants that names it (LoadShaderSourceData); for a shader
\* variant list, the list read from the file (LoadShaderVariantListSourceData)
DocumentsToOpen ==
    { shaderVariantListSourceData,
      [EmptySourceData EXCEPT !.m_shaderFilePath =
          shaderVariantListSourceData.m_shaderFilePath] }

\* Open: the base class or the reading of the file fails, or the list is
\* installed in the cleared document and the document is marked unmodified
Open ==
    \E opened \in BOOLEAN :
        IF ~opened
        THEN Cleared([CallOf("Open") EXCEPT !.errors = <<"Open failed">>])
        ELSE \E data \in DocumentsToOpen : \E loaded \in LoadAsset(data.m_shaderFilePath) :
                LET r == SetSourceData(data, loaded)
                IN  /\ m_shaderVariantListSourceData' = r.data
                    /\ m_shaderAsset' = loaded
                    /\ m_modified' = FALSE
                    /\ m_shaderVariantListSourceDataBeforeEdit' = EmptySourceData
                    /\ m_undoHistory' = <<>>
                    /\ m_undoHistoryIndex' = 0
                    /\ call' = [CallOf("Open") EXCEPT !.loaded = loaded,
                                                      !.result = 1,
                                                      !.notifications = r.notifications,
                                                      !.errors = r.errors]
                    /\ session' = "Idle"
                    /\ cleanSourceData' = r.data
                    /\ UNCHANGED <<env, valueLoop>>

\* Save, SaveAsCopy, SaveAsChild: the base class or the writing of the file
\* fails, or the list is written and the document is marked unmodified
Save ==
    /\ \E saved \in BOOLEAN :
        IF saved
        THEN /\ m_modified' = FALSE
             /\ cleanSourceData' = m_shaderVariantListSourceData
             /\ call' = [CallOf("Save") EXCEPT !.result = 1]
        ELSE /\ UNCHANGED <<m_modified, cleanSourceData>>
             /\ call' = [CallOf("Save") EXCEPT
                            !.errors = <<"Document could not be saved">>]
    /\ UNCHANGED <<m_shaderVariantListSourceData, m_shaderVariantListSourceDataBeforeEdit,
                   m_shaderAsset, env, undoHistory, session, valueLoop>>

\* the changes made in place in an edit session
Edits == {"RemoveAll", "SetHint", "SetOptions", "SetStableId", "Reinsert", "SetPath"}

\* the layout and the list of the edit sessions
EditEnvironments ==
    { <<(<<OptionA>>), <<(<<"a", "">>)>> >> }

EditSourceData ==
    { [m_shaderFilePath |-> "ok.shader", m_materialOptionsHint |-> "hint",
       m_shaderVariants |->
          << VariantInfo(1, <<(<<"a", "v0">>), (<<"b", "v1">>)>>),
             VariantInfo(2, <<(<<"a", "v1">>)>>) >>] }

----------------------------------------------------------------------------
(* The document after construction, and its requests.                      *)

Constructed ==
    /\ m_shaderVariantListSourceData = EmptySourceData
    /\ m_shaderVariantListSourceDataBeforeEdit = EmptySourceData
    /\ m_shaderAsset = FALSE
    /\ m_modified = FALSE
    /\ call = NoCall
    /\ m_undoHistory = <<>>
    /\ m_undoHistoryIndex = 0
    /\ session = "Idle"
    /\ cleanSourceData = EmptySourceData
    /\ valueLoop = NoValueLoop

InitWith(environments, sourceData, tables, edits) ==
    /\ Constructed
    /\ \E e \in environments : shaderOptions = e[1] /\ systemOptionFile = e[2]
    /\ shaderVariantListSourceData \in sourceData
    /\ \E t \in tables : optionHeaders = t[1] /\ matrixOfValues = t[2]
    /\ edit \in edits

InitOf(environments, sourceData, tables) ==
    InitWith(environments, sourceData, tables, {"RemoveAll"})

Next ==
    \/ SetShaderVariantListSourceData
    \/ AddOneVariantRow
    \/ AppendSparseVariantSet
    \/ DefragmentVariantList

\* the edit sessions and the undo history, with the request that the
\* closures of the history make
NextEdit ==
    \/ SetShaderVariantListSourceData
    \/ BeginEdit
    \/ EditObject
    \/ EndEdit
    \/ Undo
    \/ Redo

\* any table, and a few lists
Init == InitOf(Environments, SeedSourceData, GivenTables)

Spec == Init /\ [][Next]_vars

\* a list of three records in which the first and the second have the same
\* options and the ids are in no order (v0 and v1 stand for the values 0 and 1)
ExampleVariants ==
    << VariantInfo(3, <<(<<"a", "v0">>)>>),
       VariantInfo(1, <<(<<"a", "v0">>)>>),
       VariantInfo(2, <<(<<"a", "v1">>)>>) >>

ExampleSourceData ==
    { [m_shaderFilePath |-> "ok.shader", m_materialOptionsHint |-> "hint",
       m_shaderVariants |-> ExampleVariants] }

\* any list, and one table
InitDefragment == InitOf(Environments, GivenSourceData \cup ExampleSourceData, OneTable)

SpecDefragment == InitDefragment /\ [][Next]_vars

\* a document whose list is edited in place and whose edits are undone
InitEdit == InitWith(EditEnvironments, EditSourceData, OneTable, Edits)

SpecEdit == InitEdit /\ [][NextEdit]_vars

\* any layout of at most two options beside any system option file, and
\* lists without variants
ValueNames == <<"v0", "v1", "v2", "v3", "v4", "v5">>

\* the descriptors of an option of at most maxCount values whose first
\* value has index minValue; the default is one of the values, or "vX",
\* which is none of them
OptionsNamed(name, minValue, maxCount) ==
    UNION {
        {ShaderOptionDescriptor(name, defaultValue, minValue,
                                SubSeq(ValueNames, minValue + 1, minValue + n)) :
            defaultValue \in {ValueNames[i] : i \in minValue + 1..minValue + n} \cup {"vX"}}
        : n \in 1..maxCount}

Layouts ==
    LET as == OptionsNamed("a", 0, MaxValues)
        bs == OptionsNamed("b", 1, 2)
    IN  {<<>>}
        \cup {<<d>> : d \in as \cup bs}
        \cup {<<d, e>> : d \in as, e \in bs}
        \cup {<<e, d>> : d \in as, e \in bs}

SystemOptionFiles ==
    { EmptyMap,
      <<(<<"a", "">>)>>,
      <<(<<"a", "v1">>)>>,
      <<(<<"a", "">>), (<<"b", "">>)>>,
      <<(<<"b", "">>), (<<"a", "">>)>>,
      <<(<<"a", "">>), (<<"b", "v0">>)>>,
      <<(<<"z", "">>), (<<"a", "">>)>> }

SourceDataToExpand ==
    { [m_shaderFilePath |-> "ok.shader", m_materialOptionsHint |-> "hint",
       m_shaderVariants |-> <<>>],
      [m_shaderFilePath |-> "ok.shader", m_materialOptionsHint |-> "hint",
       m_shaderVariants |-> <<VariantInfo(2, <<(<<"a", "v1">>)>>)>>] }

InitExpansion ==
    InitOf(Layouts \X SystemOptionFiles, SourceDataToExpand,
           {<<(<<"a", "b">>), (<<"v1">>)>>})

SpecExpansion == InitExpansion /\ [][Next]_vars

\* the life of a document: opened, changed by requests and in edit
\* sessions, saved and cleared
NextDocument ==
    \/ Open
    \/ Save
    \/ Clear
    \/ SetShaderVariantListSourceData
    \/ AddOneVariantRow
    \/ BeginEdit
    \/ EditObject
    \/ EndEdit

\* a shader without system options, a list of one record, and the removal
\* of all records as the change made in place
DocumentEnvironments == { <<(<<>>), EmptyMap>> }

DocumentSourceData ==
    { [m_shaderFilePath |-> "ok.shader", m_materialOptionsHint |-> "hint",
       m_shaderVariants |-> <<VariantInfo(1, EmptyMap)>>] }

DocumentEdits == {"RemoveAll"}

InitDocument ==
    InitWith(DocumentEnvironments, DocumentSourceData, OneTable, DocumentEdits)

SpecDocument == InitDocument /\ [][NextDocument]_vars

\* the requests that install a list and that look up the option descriptors
NextLookup ==
    \/ SetShaderVariantListSourceData
    \/ GetShaderOptionDescriptorCountCall
    \/ GetShaderOptionDescriptorCall

InitLookup == InitOf(Environments, SeedSourceData, OneTable)

SpecLookup == InitLookup /\ [][NextLookup]_vars

\* an option of the integer range minValue..maxValue, whose value names are
\* the numbers of the range and whose default is the first of them
IntegerRangeOption(minValue, maxValue) ==
    ShaderOptionDescriptor("a", minValue, minValue,
                           [i \in 1..(maxValue - minValue + 1) |-> minValue + i - 1])

\* layouts of one option of any index range an AZ::u32 allows, left unset
\* by the system option file
ValueLoopEnvironments ==
    { <<(<<IntegerRangeOption(range[1], range[2])>>), <<(<<"a", "">>)>> >> :
        range \in {r \in (0..U32Range - 1) \X (0..U32Range - 1) : r[1] <= r[2]} }

NextValueLoop ==
    \/ BeginValueLoop
    \/ ValueLoopStep

InitValueLoop == InitOf(ValueLoopEnvironments, SourceDataToExpand, OneTable)

\* the loop runs on without a pause until its test fails
SpecValueLoop == InitValueLoop /\ [][NextValueLoop]_vars /\ WF_vars(ValueLoopStep)

\* tables without a header, and one with a header
TablesWithoutHeaders ==
    { <<(<<>>), (<<>>)>>,
      <<(<<>>), (<<"v0">>)>>,
      <<(<<>>), (<<"v0", "v1">>)>>,
      <<(<<"a">>), (<<"v1">>)>> }

InitWithoutHeaders == InitOf(Environments, SeedSourceData, TablesWithoutHeaders)

SpecWithoutHeaders == InitWithoutHeaders /\ [][Next]_vars

\* lists whose last record has one of the two largest ids an AZ::u32 holds
LastIdSourceData ==
    [m_shaderFilePath : {"ok.shader", "missing.shader"},
     m_materialOptionsHint : {"hint"},
     m_shaderVariants :
        { <<VariantInfo(U32Range - 1, EmptyMap)>>,
          <<VariantInfo(1, <<(<<"a", "v0">>)>>), VariantInfo(U32Range - 2, EmptyMap)>> }]

LastIdTables ==
    { <<(<<"a">>), (<<"v1">>)>>,
      <<(<<"a">>), (<<"v0", "v1">>)>>,
      <<(<<"a", "b">>), (<<"v0", "v1">>)>> }

InitLastId == InitOf(Environments, LastIdSourceData, LastIdTables)

SpecLastId == InitLastId /\ [][Next]_vars

----------------------------------------------------------------------------
(* Default-configuration expansion.                                        *)

\* the descriptors of the options the system option file leaves unset
UnsetDescriptors ==
    {shaderOptions[i] : i \in {j \in 1..Len(shaderOptions) :
        <<shaderOptions[j].name, "">> \in MapPairs(systemOptionFile)}}

DefaultAmongValues(d) == \E i \in 1..Len(d.values) : d.values[i] = d.defaultValue

RECURSIVE ProductOfValueCounts(_)
ProductOfValueCounts(descriptors) ==
    IF descriptors = {}
    THEN 1
    ELSE LET d == CHOOSE x \in descriptors : TRUE
         IN  (d.maxValue - d.minValue + 1) * ProductOfValueCounts(descriptors \ {d})

\* the pairs of the system option file, the unset options at their default
AllDefaults ==
    {<<p[1], IF \E d \in UnsetDescriptors : d.name = p[1]
             THEN (CHOOSE d \in UnsetDescriptors : d.name = p[1]).defaultValue
             ELSE p[2]>> : p \in MapPairs(systemOptionFile)}

\* SetShaderVariantListSourceData has just initialized an empty list
Expanded ==
    /\ call.op = "SetShaderVariantListSourceData"
    /\ call.loaded
    /\ Len(shaderVariantListSourceData.m_shaderVariants) = 0
    /\ Len(systemOptionFile) > 0

\* C1: an expansion over unset options that each have their default among
\* their values leaves as many records as the product of their value
\* counts, no two with the same options; the first has id 1 and every
\* unset option at its default; with no unset option the list is the one
\* record of the system options as given.
C1_ExpansionCount ==
    (Expanded /\ \A d \in UnsetDescriptors : DefaultAmongValues(d)) =>
        LET variants == m_shaderVariantListSourceData.m_shaderVariants
        IN  /\ Len(variants) = ProductOfValueCounts(UnsetDescriptors)
            /\ \A i, j \in 1..Len(variants) :
                    i # j => ~MapEquals(variants[i].m_options, variants[j].m_options)
            /\ variants[1].m_stableId = 1
            /\ MapPairs(variants[1].m_options) = AllDefaults
            /\ UnsetDescriptors = {} => variants = <<VariantInfo(1, systemOptionFile)>>

\* two unset options, of two and of three values, have been expanded
C1_Witness ==
    /\ Expanded
    /\ \A d \in UnsetDescriptors : DefaultAmongValues(d)
    /\ {d.maxValue - d.minValue + 1 : d \in UnsetDescriptors} = {2, 3}
    /\ Len(m_shaderVariantListSourceData.m_shaderVariants) = 6

----------------------------------------------------------------------------
(* AppendSparseVariantSet and AddOneVariantRow.                            *)

\* the names of the options the document's shader asset describes
CatalogNames ==
    {GetShaderOptionDescriptor(i).name : i \in 0..GetShaderOptionDescriptorCount - 1}

NoDuplicateHeaders ==
    \A i, j \in 1..Len(optionHeaders) : i # j => optionHeaders[i] # optionHeaders[j]

TableFits == Len(matrixOfValues) % Len(optionHeaders) = 0

TableLines == Len(matrixOfValues) \div Len(optionHeaders)

\* the pairs line r (0-based) of the table gives for the options of the catalog
LinePairs(r) ==
    {<<optionHeaders[c], matrixOfValues[r * Len(optionHeaders) + c]>> :
        c \in {k \in 1..Len(optionHeaders) : optionHeaders[k] \in CatalogNames}}

\* the id the allocation policy gives the record after those of a list
IdAfter(variants) ==
    IF variants = <<>> THEN 1 ELSE (variants[Len(variants)].m_stableId + 1) % U32Range

\* in this step AppendSparseVariantSet took a table that passes its check
AppendedTable == call'.op = "AppendSparseVariantSet" /\ TableFits

\* every line of the table is the record at its place after the old records
LinesMapped ==
    LET old == m_shaderVariantListSourceData.m_shaderVariants
        new == m_shaderVariantListSourceData'.m_shaderVariants
    IN  /\ Len(new) = Len(old) + TableLines
        /\ \A r \in 0..TableLines - 1 :
               MapPairs(new[Len(old) + r + 1].m_options) = LinePairs(r)

C3_Validation ==
    [][(call'.op = "AppendSparseVariantSet" /\ ~TableFits) =>
          /\ m_shaderVariantListSourceData' = m_shaderVariantListSourceData
          /\ call'.errors # <<>>
          /\ call'.notifications = <<>>]_vars

\* a matrix of three cells under two headers was refused by a list that
\* holds a record
C3_Witness ==
    /\ call.op = "AppendSparseVariantSet"
    /\ Len(optionHeaders) = 2
    /\ Len(matrixOfValues) = 3
    /\ call.errors # <<>>
    /\ Len(m_shaderVariantListSourceData.m_shaderVariants) = 1

\* C4: the record of line r gets the id that follows the last id of the
\* list as it was before the call, plus r.
C4_IdAllocation ==
    [][(AppendedTable /\ TableLines >= 1) =>
          LET old == m_shaderVariantListSourceData.m_shaderVariants
              new == m_shaderVariantListSourceData'.m_shaderVariants
          IN  /\ Len(new) = Len(old) + TableLines
              /\ \A r \in 0..TableLines - 1 :
                     new[Len(old) + r + 1].m_stableId = (IdAfter(old) + r) % U32Range]_vars

\* two lines were appended to a list whose only record has id 3
C4_Witness ==
    /\ call.op = "AppendSparseVariantSet"
    /\ TableFits
    /\ TableLines = 2
    /\ Len(m_shaderVariantListSourceData.m_shaderVariants) = 3
    /\ m_shaderVariantListSourceData.m_shaderVariants[1].m_stableId = 3
    /\ m_shaderVariantListSourceData.m_shaderVariants[2].m_stableId = 4
    /\ m_shaderVariantListSourceData.m_shaderVariants[3].m_stableId = 5

\* C5: after a table that passes the check, the records of before are the
\* first records of the list, unchanged and in their order, and the path
\* and the hint are as before.
C5_Frame ==
    [][AppendedTable =>
          LET old == m_shaderVariantListSourceData.m_shaderVariants
              new == m_shaderVariantListSourceData'.m_shaderVariants
          IN  /\ Len(new) >= Len(old)
              /\ SubSeq(new, 1, Len(old)) = old
              /\ m_shaderVariantListSourceData'.m_shaderFilePath =
                     m_shaderVariantListSourceData.m_shaderFilePath
              /\ m_shaderVariantListSourceData'.m_materialOptionsHint =
                     m_shaderVariantListSourceData.m_materialOptionsHint]_vars

\* a line was appended after the two records of a given list
C5_Witness ==
    /\ call.op = "AppendSparseVariantSet"
    /\ TableFits
    /\ TableLines = 1
    /\ Len(m_shaderVariantListSourceData.m_shaderVariants) = 3
    /\ SubSeq(m_shaderVariantListSourceData.m_shaderVariants, 1, 2) =
          shaderVariantListSourceData.m_shaderVariants
    /\ m_shaderVariantListSourceData.m_materialOptionsHint = "hint"

\* C6: when the asset loads, AddOneVariantRow appends one record without
\* options whose id is 1 for an empty list and the last id + 1 otherwise,
\* returns that id, and leaves the earlier records as they were.
C6_AddOneVariantRow ==
    [][(call'.op = "AddOneVariantRow" /\ call'.loaded) =>
          LET old == m_shaderVariantListSourceData.m_shaderVariants
          IN  /\ m_shaderVariantListSourceData' =
                    [m_shaderVariantListSourceData EXCEPT !.m_shaderVariants =
                        Append(old, VariantInfo(IdAfter(old), EmptyMap))]
              /\ call'.result = IdAfter(old)]_vars

\* a row was added to a list whose last record has id 1 and whose first has id 2
C6_Witness ==
    /\ call.op = "AddOneVariantRow"
    /\ call.loaded
    /\ call.result = 2
    /\ Len(m_shaderVariantListSourceData.m_shaderVariants) = 3
    /\ m_shaderVariantListSourceData.m_shaderVariants[1].m_stableId = 2
    /\ m_shaderVariantListSourceData.m_shaderVariants[3].m_stableId = 2

----------------------------------------------------------------------------
(* DefragmentVariantList.                                                  *)

\* in this step DefragmentVariantList ran
Defragmented == call'.op = "DefragmentVariantList"

\* the option mappings of the records of a list, as mappings
MappingsOf(variants) == {MapPairs(variants[i].m_options) : i \in 1..Len(variants)}

\* C7: after DefragmentVariantList no two records of the list have equal
\* option mappings, and the mappings of the list are the distinct mappings
\* of the list of before.
C7_Deduplication ==
    [][Defragmented =>
          LET old == m_shaderVariantListSourceData.m_shaderVariants
              new == m_shaderVariantListSourceData'.m_shaderVariants
          IN  /\ \A i, j \in 1..Len(new) :
                     i # j => ~MapEquals(new[i].m_options, new[j].m_options)
              /\ MappingsOf(new) = MappingsOf(old)]_vars

\* C8: of the records of before that share an option mapping,
\* DefragmentVariantList retains the first in list order and no other.
C8_FirstSurvivor ==
    [][Defragmented =>
          LET old == m_shaderVariantListSourceData.m_shaderVariants
          IN  call'.compacter =
                  {i \in 1..Len(old) :
                      \A j \in 1..i - 1 : ~MapEquals(old[j].m_options, old[i].m_options)}]_vars

\* C9: the records DefragmentVariantList retains stand in the list in the
\* ascending order of the ids they had before (records that had the same
\* id stand in either order).
C9_OrderByOldId ==
    [][(Defragmented /\ m_shaderVariantListSourceData.m_shaderVariants # <<>>) =>
          LET old == m_shaderVariantListSourceData.m_shaderVariants
              new == m_shaderVariantListSourceData'.m_shaderVariants
              sorted == call'.sorted
          IN  /\ Len(sorted) = Cardinality(call'.compacter)
              /\ \A i \in 1..Len(sorted) : \E k \in call'.compacter : sorted[i] = old[k]
              /\ \A i, j \in 1..Len(sorted) :
                     i < j => sorted[i].m_stableId <= sorted[j].m_stableId
              /\ Len(new) = Len(sorted)
              /\ \A i \in 1..Len(new) : new[i].m_options = sorted[i].m_options]_vars

\* a list given with the ids 3 and 1 was defragmented: the record that had
\* id 1 stands first
C9_Witness ==
    /\ call.op = "DefragmentVariantList"
    /\ Len(call.sorted) = 2
    /\ call.sorted[1].m_stableId = 1
    /\ call.sorted[2].m_stableId = 3
    /\ Len(shaderVariantListSourceData.m_shaderVariants) = 2
    /\ shaderVariantListSourceData.m_shaderVariants[1].m_stableId = 3
    /\ call.sorted[1] = shaderVariantListSourceData.m_shaderVariants[2]
    /\ m_shaderVariantListSourceData.m_shaderVariants[1].m_options = call.sorted[1].m_options

\* C10: after DefragmentVariantList the record at place i, counted from 0,
\* has id i + 1.
C10_SequentialIds ==
    call.op = "DefragmentVariantList" =>
        \A i \in 1..Len(m_shaderVariantListSourceData.m_shaderVariants) :
            m_shaderVariantListSourceData.m_shaderVariants[i].m_stableId = i

\* a list given with the ids 2 and 3 was defragmented
C10_Witness ==
    /\ call.op = "DefragmentVariantList"
    /\ Len(call.sorted) = 2
    /\ call.sorted[1].m_stableId = 2
    /\ call.sorted[2].m_stableId = 3
    /\ m_shaderVariantListSourceData.m_shaderVariants[1].m_stableId = 1
    /\ m_shaderVariantListSourceData.m_shaderVariants[2].m_stableId = 2

\* C11 as claimed: the list [{3,{a:0}}, {1,{a:0}}, {2,{a:1}}] defragments
\* to [{1,{a:0}}, {2,{a:1}}].
C11_ExampleAsClaimed ==
    [][(Defragmented /\ m_shaderVariantListSourceData.m_shaderVariants = ExampleVariants) =>
          m_shaderVariantListSourceData'.m_shaderVariants =
              << VariantInfo(1, <<(<<"a", "v0">>)>>),
                 VariantInfo(2, <<(<<"a", "v1">>)>>) >>]_vars

\* C11: the list [{3,{a:0}}, {1,{a:0}}, {2,{a:1}}] defragments to
\* [{1,{a:1}}, {2,{a:0}}]: of the two records with {a:0} the first of the
\* list, which had id 3, is retained, and it had the larger id of the two
\* retained records.
C11_Example ==
    [][(Defragmented /\ m_shaderVariantListSourceData.m_shaderVariants = ExampleVariants) =>
          /\ call'.compacter = {1, 3}
          /\ m_shaderVariantListSourceData'.m_shaderVariants =
                << VariantInfo(1, <<(<<"a", "v1">>)>>),
                   VariantInfo(2, <<(<<"a", "v0">>)>>) >>]_vars

\* the example list was given and defragmented
C11_Witness ==
    /\ call.op = "DefragmentVariantList"
    /\ shaderVariantListSourceData.m_shaderVariants = ExampleVariants
    /\ call.sorted = <<ExampleVariants[3], ExampleVariants[1]>>
    /\ Len(m_shaderVariantListSourceData.m_shaderVariants) = 2

C13_DefragmentFrame ==
    [][Defragmented =>
          /\ m_shaderVariantListSourceData'.m_shaderFilePath =
                 m_shaderVariantListSourceData.m_shaderFilePath
          /\ m_shaderVariantListSourceData'.m_materialOptionsHint =
                 m_shaderVariantListSourceData.m_materialOptionsHint]_vars

\* a list with a path and a hint lost a record to DefragmentVariantList
C13_Witness ==
    /\ call.op = "DefragmentVariantList"
    /\ Cardinality(call.compacter) < Len(shaderVariantListSourceData.m_shaderVariants)
    /\ Len(call.sorted) = 1
    /\ m_shaderVariantListSourceData.m_shaderFilePath = "missing.shader"
    /\ m_shaderVariantListSourceData.m_materialOptionsHint = "hint"

----------------------------------------------------------------------------
(* The key of the deduplication.                                           *)

\* C14: any two records of the list whose option mappings hold the same
\* pairs, in whatever order they were built, have the same content hash,
\* so that their keys are equal exactly when their mappings are.
C14_HashConsistency ==
    LET variants == m_shaderVariantListSourceData.m_shaderVariants
    IN  \A i, j \in 1..Len(variants) :
            /\ MapEquals(variants[i].m_options, variants[j].m_options) =>
                   VariantCompacterKey(variants, i).m_hash =
                       VariantCompacterKey(variants, j).m_hash
            /\ KeyEquals(variants, VariantCompacterKey(variants, i),
                                   VariantCompacterKey(variants, j))
                   <=> MapEquals(variants[i].m_options, variants[j].m_options)

----------------------------------------------------------------------------
(* The edit session and the undo history.                                  *)

\* in this step EndEdit ran
EndEdited == call'.op = "EndEdit"

\* the snapshot and the live list differ in the path, in the number of
\* records, or in the id or the options of the records at some place
SnapshotDiffers ==
    LET undoState == m_shaderVariantListSourceDataBeforeEdit
        redoState == m_shaderVariantListSourceData
    IN  \/ undoState.m_shaderFilePath # redoState.m_shaderFilePath
        \/ Len(undoState.m_shaderVariants) # Len(redoState.m_shaderVariants)
        \/ \E i \in 1..Len(redoState.m_shaderVariants) :
              \/ undoState.m_shaderVariants[i].m_stableId #
                     redoState.m_shaderVariants[i].m_stableId
              \/ MapPairs(undoState.m_shaderVariants[i].m_options) #
                     MapPairs(redoState.m_shaderVariants[i].m_options)

\* C15: EndEdit puts one transaction on the undo history and notifies of
\* the modification exactly when the snapshot and the live list differ in
\* the path, the number of records or the (id, options) at some place;
\* otherwise the history stays as it was and nothing is notified.
C15_EndEditDetection ==
    [][EndEdited =>
          IF SnapshotDiffers
          THEN /\ m_undoHistoryIndex' = m_undoHistoryIndex + 1
               /\ Len(m_undoHistory') = m_undoHistoryIndex'
               /\ SubSeq(m_undoHistory', 1, m_undoHistoryIndex) =
                      SubSeq(m_undoHistory, 1, m_undoHistoryIndex)
               /\ m_undoHistory'[m_undoHistoryIndex'] =
                      [undo |-> m_shaderVariantListSourceDataBeforeEdit,
                       redo |-> m_shaderVariantListSourceData]
               /\ \E n \in 1..Len(call'.notifications) :
                      call'.notifications[n] = "OnDocumentModified"
          ELSE /\ UNCHANGED undoHistory
               /\ call'.notifications = <<>>]_vars

\* an edit session in which the id of the first record was changed in
\* place, and nothing else, ended with a transaction
C15_Witness ==
    /\ call.op = "EndEdit"
    /\ edit = "SetStableId"
    /\ m_undoHistoryIndex = 1
    /\ call.notifications # <<>>
    /\ m_undoHistory[1].redo = m_shaderVariantListSourceData
    /\ m_undoHistory[1].undo.m_shaderFilePath = m_undoHistory[1].redo.m_shaderFilePath
    /\ Len(m_undoHistory[1].undo.m_shaderVariants) = 2
    /\ Len(m_undoHistory[1].redo.m_shaderVariants) = 2
    /\ m_undoHistory[1].undo.m_shaderVariants[1].m_stableId #
           m_undoHistory[1].redo.m_shaderVariants[1].m_stableId

\* C16: the undo of a transaction makes the live list equal to the list of
\* before the edit, and its redo makes it equal to the list of after the
\* edit, lists without records included.
C16_UndoRedoRoundTrip ==
    [][/\ call'.op = "Undo" =>
            m_shaderVariantListSourceData' = m_undoHistory[m_undoHistoryIndex].undo
       /\ call'.op = "Redo" =>
            m_shaderVariantListSourceData' = m_undoHistory[m_undoHistoryIndex + 1].redo]_vars

\* C17: BeginEdit makes the snapshot equal to the live list of that moment;
\* no change made to the live list afterwards, in place or by a request,
\* changes the snapshot; EndEdit leaves the snapshot empty, and the
\* transaction it records holds the two lists as they were, as do the
\* transactions recorded before, whatever is edited later.
C17_Snapshot ==
    [][/\ call'.op = "BeginEdit" =>
            /\ m_shaderVariantListSourceDataBeforeEdit' = m_shaderVariantListSourceData
            /\ m_shaderVariantListSourceData' = m_shaderVariantListSourceData
       /\ call'.op \notin {"BeginEdit", "EndEdit"} =>
            /\ m_shaderVariantListSourceDataBeforeEdit' =
                   m_shaderVariantListSourceDataBeforeEdit
            /\ m_undoHistory' = m_undoHistory
       /\ call'.op = "EndEdit" =>
            /\ m_shaderVariantListSourceDataBeforeEdit' = EmptySourceData
            /\ \/ m_undoHistory' = m_undoHistory
               \/ /\ m_undoHistory'[m_undoHistoryIndex'].undo =
                         m_shaderVariantListSourceDataBeforeEdit
                  /\ m_undoHistory'[m_undoHistoryIndex'].redo =
                         m_shaderVariantListSourceData
                  /\ SubSeq(m_undoHistory', 1, m_undoHistoryIndex) =
                         SubSeq(m_undoHistory, 1, m_undoHistoryIndex)]_vars

\* in a second edit session on the given list all records were removed in
\* place: the snapshot holds the given list, and so does the transaction of
\* the first session
C17_Witness ==
    /\ call.op = "EditObject"
    /\ m_shaderVariantListSourceDataBeforeEdit = shaderVariantListSourceData
    /\ m_shaderVariantListSourceData.m_shaderVariants = <<>>
    /\ Len(m_undoHistory) = 1
    /\ m_undoHistory[1].undo = shaderVariantListSourceData
    /\ m_undoHistory[1].redo.m_shaderVariants = <<>>

\* C18: whenever AddOneVariantRow, AppendSparseVariantSet or
\* DefragmentVariantList changes the live list, the undo history holds
\* afterwards a transaction whose undo restores the list of before.
C18_MutationsRecorded ==
    [][(/\ call'.op \in {"AddOneVariantRow", "AppendSparseVariantSet",
                         "DefragmentVariantList"}
        /\ m_shaderVariantListSourceData' # m_shaderVariantListSourceData) =>
          /\ m_undoHistoryIndex' > 0
          /\ m_undoHistory'[m_undoHistoryIndex'].undo = m_shaderVariantListSourceData]_vars

----------------------------------------------------------------------------
(* What SetShaderVariantListSourceData reports and leaves behind.          *)

\* the last request went through SetShaderVariantListSourceData
Committed ==
    \/ call.op \in {"SetShaderVariantListSourceData", "DefragmentVariantList",
                    "Undo", "Redo"}
    \/ call.op = "AppendSparseVariantSet" /\ TableFits

\* C19: a SetShaderVariantListSourceData whose asset loads, called directly
\* or by AppendSparseVariantSet, DefragmentVariantList, undo or redo, sends
\* the notification that the object info is invalidated and then the one
\* that the document is modified, with the list installed; one whose asset
\* does not load sends neither.
C19_CommitNotifications ==
    Committed =>
        IF call.loaded
        THEN /\ call.notifications =
                    <<"OnDocumentObjectInfoInvalidated", "OnDocumentModified">>
             /\ call.op = "SetShaderVariantListSourceData" =>
                    /\ m_shaderVariantListSourceData.m_shaderFilePath =
                           shaderVariantListSourceData.m_shaderFilePath
                    /\ shaderVariantListSourceData.m_shaderVariants # <<>> =>
                           m_shaderVariantListSourceData = shaderVariantListSourceData
        ELSE call.notifications = <<>>

\* a table of one line was appended and the asset loaded
C19_Witness ==
    /\ call.op = "AppendSparseVariantSet"
    /\ TableFits
    /\ TableLines = 1
    /\ call.loaded
    /\ Len(call.notifications) = 2
    /\ Len(m_shaderVariantListSourceData.m_shaderVariants) = 2

\* C20: a SetShaderVariantListSourceData whose asset does not load, called
\* directly or by AppendSparseVariantSet or DefragmentVariantList, reports
\* an error and leaves the live list as it was before the call.
C20_AllOrNothing ==
    [][(/\ \/ call'.op \in {"SetShaderVariantListSourceData", "DefragmentVariantList"}
           \/ call'.op = "AppendSparseVariantSet" /\ TableFits
        /\ ~call'.loaded) =>
          /\ call'.errors # <<>>
          /\ m_shaderVariantListSourceData' = m_shaderVariantListSourceData]_vars

----------------------------------------------------------------------------
(* The stable ids of the records.                                          *)

\* no two records of a list have the same id
DistinctStableIds(variants) ==
    \A i, j \in 1..Len(variants) : i # j => variants[i].m_stableId # variants[j].m_stableId

\* C21: the given list having ids that differ from each other, in any
\* order, no two records of the live list ever share an id: the ids that
\* AddOneVariantRow and AppendSparseVariantSet allocate are not those of
\* records of the list.
C21_StableIdsUnique ==
    DistinctStableIds(shaderVariantListSourceData.m_shaderVariants) =>
        DistinctStableIds(m_shaderVariantListSourceData.m_shaderVariants)

\* every record of a list has an id of at least 1
StableIdsFromOne(variants) == \A i \in 1..Len(variants) : variants[i].m_stableId >= 1

\* C22: the given list having ids of at least 1, whatever AZ::u32 the id of
\* its last record is, no record of the live list has the reserved id 0.
C22_StableIdNeverZero ==
    StableIdsFromOne(shaderVariantListSourceData.m_shaderVariants) =>
        StableIdsFromOne(m_shaderVariantListSourceData.m_shaderVariants)

----------------------------------------------------------------------------
(* The lookups of the option descriptors.                                  *)

\* C23: without a ready shader asset, GetShaderOptionDescriptorCount and
\* GetShaderOptionDescriptor both report an error, and the lookup returns
\* the invalid descriptor.
C23_NotReadyReported ==
    (/\ call.op \in {"GetShaderOptionDescriptorCount", "GetShaderOptionDescriptor"}
     /\ ~m_shaderAsset) =>
        /\ call.errors # <<>>
        /\ call.op = "GetShaderOptionDescriptor" =>
               call.descriptor = <<m_invalidDescriptor>>

\* C24: with a ready shader asset, GetShaderOptionDescriptor(index) for an
\* index that is not below the number of options reports an error and
\* returns the invalid descriptor, and leaves the document as it was.
C24_OutOfRangeReported ==
    [][(/\ call'.op = "GetShaderOptionDescriptor"
        /\ m_shaderAsset
        /\ call'.index >= Len(shaderOptions)) =>
          /\ call'.errors # <<>>
          /\ call'.descriptor = <<m_invalidDescriptor>>
          /\ UNCHANGED <<m_shaderVariantListSourceData,
                         m_shaderVariantListSourceDataBeforeEdit,
                         m_shaderAsset, m_modified, undoHistory>>]_vars

----------------------------------------------------------------------------
(* The expansion, step by step.                                            *)

\* C25: an expansion over an unset option whose default is none of its
\* value names reports this, and does not silently leave a list of another
\* size than the product of the value counts.
C25_ConsistencyReported ==
    (Expanded /\ \E d \in UnsetDescriptors : ~DefaultAmongValues(d)) =>
        call.errors # <<>>

\* the descriptors of the unset options, in the order of the layout
UnsetInOrder ==
    SelectSeq(shaderOptions, LAMBDA d : <<d.name, "">> \in MapPairs(systemOptionFile))

\* the value names of an option other than its default, in index order
NonDefaultValues(d) == SelectSeq(d.values, LAMBDA v : v # d.defaultValue)

\* the number of records the list has when the i-th unset option is reached:
\* the product of the value counts of the unset options before it
RECURSIVE ListSizeBefore(_)
ListSizeBefore(i) ==
    IF i <= 1 THEN 1 ELSE Len(UnsetInOrder[i - 1].values) * ListSizeBefore(i - 1)

\* the value the record at place p (from 0) holds for the i-th unset option:
\* the records of before the option keep the default, and the n-th value
\* other than the default has the n-th copy of all of them
ValueAtPlace(p, i) ==
    LET d == UnsetInOrder[i]
        copy == (p \div ListSizeBefore(i)) % Len(d.values)
    IN  IF copy = 0 THEN d.defaultValue ELSE NonDefaultValues(d)[copy]

\* C26: every unset option having its default among its k values, the
\* expansion multiplies the list by k per option, in the order of the
\* layout: the list has as many records as the product of the value counts,
\* and for each option the records of before it keep its default and each
\* of its k - 1 other values, in index order, holds one copy of exactly
\* those records, in their order.
C26_ExpansionStep ==
    (Expanded /\ \A d \in UnsetDescriptors : DefaultAmongValues(d)) =>
        LET variants == m_shaderVariantListSourceData.m_shaderVariants
        IN  /\ Len(variants) = ListSizeBefore(Len(UnsetInOrder) + 1)
            /\ \A p \in 0..Len(variants) - 1 : \A i \in 1..Len(UnsetInOrder) :
                   MapAt(variants[p + 1].m_options, UnsetInOrder[i].name) =
                       ValueAtPlace(p, i)

\* the option b of two values, then the option a of three values with its
\* second value as the default, have been expanded
C26_Witness ==
    /\ Expanded
    /\ Len(UnsetInOrder) = 2
    /\ UnsetInOrder[1].name = "b" /\ Len(UnsetInOrder[1].values) = 2
    /\ UnsetInOrder[2].name = "a" /\ Len(UnsetInOrder[2].values) = 3
    /\ UnsetInOrder[1].defaultValue = "v1"
    /\ UnsetInOrder[2].defaultValue = "v1"
    /\ Len(m_shaderVariantListSourceData.m_shaderVariants) = 6
    /\ MapAt(m_shaderVariantListSourceData.m_shaderVariants[6].m_options, "a") = "v2"
    /\ MapAt(m_shaderVariantListSourceData.m_shaderVariants[6].m_options, "b") = "v2"

\* C27: the expansion gives the ids in one ascending run: the record at
\* place i, counted from 0, of the list it leaves has id i + 1, whatever
\* the layout and the system option file are.
C27_ExpansionIds ==
    Expanded =>
        \A i \in 1..Len(m_shaderVariantListSourceData.m_shaderVariants) :
            m_shaderVariantListSourceData.m_shaderVariants[i].m_stableId = i

\* two unset options of two values each have been expanded into the
\* records 1, 2, 3, 4
C27_Witness ==
    /\ Expanded
    /\ Len(UnsetInOrder) = 2
    /\ \A i \in 1..2 : Len(UnsetInOrder[i].values) = 2 /\ DefaultAmongValues(UnsetInOrder[i])
    /\ Len(m_shaderVariantListSourceData.m_shaderVariants) = 4
    /\ m_shaderVariantListSourceData.m_shaderVariants[4].m_stableId = 4

\* the names a mapping has a value for
MapKeys(m) == {m[i][1] : i \in 1..Len(m)}

\* the value names of an option
LegalValues(d) == {d.values[i] : i \in 1..Len(d.values)}

\* C28: every record the expansion leaves has the keys of the system option
\* file and no other; an option the file gives a value other than "" has
\* that value in every record, and an option of the layout the file leaves
\* unset has one of its own value names in every record.
C28_ExpansionShape ==
    Expanded =>
        \A n \in 1..Len(m_shaderVariantListSourceData.m_shaderVariants) :
            LET options == m_shaderVariantListSourceData.m_shaderVariants[n].m_options
            IN  /\ MapKeys(options) = MapKeys(systemOptionFile)
                /\ Len(options) = Len(systemOptionFile)
                /\ \A p \in MapPairs(systemOptionFile) :
                       p[2] # "" => MapAt(options, p[1]) = p[2]
                /\ \A d \in UnsetDescriptors :
                       MapAt(options, d.name) \in LegalValues(d)

\* C29: SetShaderVariantListSourceData initializes the list from the system
\* options only when the given list has no variants and the system option
\* file has entries (and the asset loads): a given list with variants is
\* installed as given, and after a given list without variants beside a
\* system option file that is empty or missing the live list has no
\* variants; with entries in the file it has at least the seed record.
C29_ExpansionTrigger ==
    call.op = "SetShaderVariantListSourceData" =>
        LET given == shaderVariantListSourceData
            live == m_shaderVariantListSourceData
        IN  /\ Len(given.m_shaderVariants) >= 1 => live = given
            /\ (Len(given.m_shaderVariants) = 0 /\ Len(systemOptionFile) = 0) =>
                   live = given
            /\ live # given =>
                   /\ Len(given.m_shaderVariants) = 0
                   /\ Len(systemOptionFile) > 0
                   /\ call.loaded
                   /\ Len(live.m_shaderVariants) >= 1
                   /\ live = [given EXCEPT !.m_shaderVariants = live.m_shaderVariants]
            /\ (Len(given.m_shaderVariants) = 0 /\ Len(systemOptionFile) > 0
                  /\ call.loaded) => live # given

\* a list of one record was given beside a system option file with an
\* unset option, the asset loaded, and the list is the given one
C29_Witness ==
    /\ call.op = "SetShaderVariantListSourceData"
    /\ call.loaded
    /\ Len(shaderVariantListSourceData.m_shaderVariants) = 1
    /\ UnsetDescriptors # {}
    /\ m_shaderVariantListSourceData = shaderVariantListSourceData

\* the ids of a list ascend strictly in list order
AscendingStableIds(variants) ==
    \A i, j \in 1..Len(variants) : i < j => variants[i].m_stableId < variants[j].m_stableId

\* C30: from a list without variants or a list just initialized from the
\* system options, whatever AddOneVariantRow, AppendSparseVariantSet and
\* DefragmentVariantList calls follow, the ids of the live list ascend
\* strictly in list order, and the id allocated next (the last id + 1) is
\* larger than the id of every record.
C30_AscendingIds ==
    Len(shaderVariantListSourceData.m_shaderVariants) = 0 =>
        LET variants == m_shaderVariantListSourceData.m_shaderVariants
        IN  /\ AscendingStableIds(variants)
            /\ \A i \in 1..Len(variants) : IdAfter(variants) > variants[i].m_stableId

\* a line was appended to the two records the expansion of one option left
C30_Witness ==
    /\ Len(shaderVariantListSourceData.m_shaderVariants) = 0
    /\ call.op = "AppendSparseVariantSet"
    /\ TableFits
    /\ TableLines = 1
    /\ Len(UnsetInOrder) = 1
    /\ Len(m_shaderVariantListSourceData.m_shaderVariants) = 3
    /\ m_shaderVariantListSourceData.m_shaderVariants[1].m_options = <<(<<"a", "v0">>)>>
    /\ m_shaderVariantListSourceData.m_shaderVariants[2].m_options = <<(<<"a", "v1">>)>>
    /\ m_shaderVariantListSourceData.m_shaderVariants[3].m_stableId = 3

----------------------------------------------------------------------------
(* The edit session and the modified flag over the life of a document.     *)

\* C31: a transaction is put on the undo history only by an EndEdit that
\* follows a BeginEdit with no EndEdit or Clear between them; an EndEdit
\* made while no session is open leaves the history as it was and sends no
\* notification.
C31_SessionProtocol ==
    [][/\ (call'.op = "EndEdit" /\ session = "Idle") =>
              /\ UNCHANGED undoHistory
              /\ call'.notifications = <<>>
       /\ Len(m_undoHistory') > Len(m_undoHistory) =>
              /\ call'.op = "EndEdit"
              /\ session = "Editing"]_vars

\* C32: after SetShaderVariantListSourceData, AppendSparseVariantSet,
\* DefragmentVariantList, AddOneVariantRow or an EndEdit that recorded an
\* edit, a live list that is not the list the last successful open or save
\* or the last Clear left means that the document is modified; a successful
\* open, a successful save and Clear leave it unmodified.
C32_ModifiedFlag ==
    /\ (/\ \/ call.op \in {"SetShaderVariantListSourceData", "AppendSparseVariantSet",
                           "DefragmentVariantList", "AddOneVariantRow"}
           \/ call.op = "EndEdit" /\ call.notifications # <<>>
        /\ m_shaderVariantListSourceData # cleanSourceData) => m_modified
    /\ (\/ call.op = "Clear"
        \/ call.op \in {"Open", "Save"} /\ call.result = 1) => ~m_modified

----------------------------------------------------------------------------
(* What AddOneVariantRow returns.                                          *)

\* C33: an AddOneVariantRow whose asset does not load returns 0 and leaves
\* the live list as it was; a return value other than 0 is the id of the
\* record that is now the last of the list, one record longer than before.
C33_AddOneVariantRowFailure ==
    [][call'.op = "AddOneVariantRow" =>
          LET old == m_shaderVariantListSourceData.m_shaderVariants
              new == m_shaderVariantListSourceData'.m_shaderVariants
          IN  /\ ~call'.loaded =>
                     /\ call'.result = 0
                     /\ m_shaderVariantListSourceData' = m_shaderVariantListSourceData
              /\ call'.result # 0 =>
                     /\ Len(new) = Len(old) + 1
                     /\ new[Len(new)].m_stableId = call'.result
                     /\ SubSeq(new, 1, Len(old)) = old]_vars

\* a row was asked of the two records of a list whose shader does not load
C33_Witness ==
    /\ call.op = "AddOneVariantRow"
    /\ ~call.loaded
    /\ call.result = 0
    /\ m_shaderVariantListSourceData.m_shaderFilePath = "missing.shader"
    /\ m_shaderVariantListSourceData = shaderVariantListSourceData
    /\ Len(m_shaderVariantListSourceData.m_shaderVariants) = 2

----------------------------------------------------------------------------
(* AppendSparseVariantSet given no header.                                 *)

\* C34: given a table without a header, whether its matrix has cells or
\* not, AppendSparseVariantSet computes neither the remainder nor the
\* number of lines with a divisor of zero, appends no record and leaves the
\* live list as it was.
C34_EmptyHeader ==
    [][(call'.op = "AppendSparseVariantSet" /\ Len(optionHeaders) = 0) =>
          /\ ~call'.undefined
          /\ m_shaderVariantListSourceData' = m_shaderVariantListSourceData]_vars

----------------------------------------------------------------------------
(* Termination of the expansion.                                           *)

\* C35: the loop over the value indices of an unset option comes to its
\* end for every index range, the range that ends at the largest AZ::u32
\* included.
C35_Termination == (valueLoop.pc = "test") ~> (valueLoop.pc = "done")

====
